---------------------------- MODULE Spec2Model ----------------------------
(***************************************************************************)
(* A model of bhph_crm.py: the rule-based underwriting score               *)
(* (compute_pti, score_application) and the handlers of the Streamlit      *)
(* pages that write Leads, Tags, Notes and FinanceApplications through     *)
(* the SQLAlchemy session.                                                 *)
(*                                                                         *)
(* Money amounts are whole dollars and durations whole months.  For whole  *)
(* amounts the double division desired_payment / net_income compares with  *)
(* the literals 0.20, 0.25 and 0.30 exactly as the rational does, so a     *)
(* ratio is kept as a pair <<numerator, denominator>>.                     *)
(***************************************************************************)
EXTENDS Integers, Sequences, FiniteSets, TLC

VARIABLES
    leads,      \* table leads: rows [id, first_name, last_name, status]
    tags,       \* table tags: rows [id, lead_id, name]
    notes,      \* table notes: rows [id, lead_id, body, created_by]
    apps,       \* table finance_apps: rows [id, lead_id, inputs..., result]
    pc,         \* where the create_app handler stands: "idle", "score", "save"
    app,        \* the FinanceApplication object the handler built, or NoApp
    ret,        \* what score_application returned to the handler, or NoResult
    calls,      \* history: the (snapshot, result) of every call of score_application,
                \* and whether the snapshot had been scored before
    sess,       \* per browser session: the Lead Detail run in flight and the
                \* lead.tags collection its ORM session loaded
    written,    \* history: per browser session, the last tag list it committed
    last        \* history: the last handler that ran and how it ended; for a tag
                \* replace its lead, its selection and whether it repeats the one
                \* before (times = 2); for an import the first new id, the status
                \* cells read and the count reported; for a deletion the lead
                \* and the number of its children

tables == <<leads, tags, notes, apps>>
vars == <<leads, tags, notes, apps, pc, app, ret, calls, sess, written, last>>

\* A result attribute that was never assigned (None on the Python object).
NoResult == [score |-> -1, tier |-> "none", decision |-> "none", notes |-> "none"]

(***************************************************************************)
(* Underwriting / scoring logic                                            *)
(***************************************************************************)

\* compute_pti with the guard off by one: zero income is divided by.
compute_ptiStrictGuard(net_income, desired_payment) ==
    IF net_income < 0 THEN <<1, 1>> ELSE <<desired_payment, net_income>>

\* compute_pti: 1.0 when there is no income, else desired_payment / net_income.
compute_pti(net_income, desired_payment) ==
    IF net_income <= 0 THEN <<1, 1>> ELSE <<desired_payment, net_income>>

\* pti <= pct / 100, for a ratio with a positive denominator.
PtiLeq(pti, pct) == 100 * pti[1] <= pct * pti[2]

\* f"{pti:.0%}": the ratio times 100, rounded half to even, no decimals.
FormatPct(pti) ==
    LET n == 100 * pti[1]
        q == n \div pti[2]
        r == n % pti[2]
        rounded == IF 2 * r < pti[2] THEN q
                   ELSE IF 2 * r > pti[2] THEN q + 1
                   ELSE IF q % 2 = 0 THEN q ELSE q + 1
    IN  ToString(rounded) \o "%"

Baseline == 50

\* The income rule with the weights of its top and third band exchanged.
IncomeRuleSwapped(a) ==
    IF a.net_monthly_income >= 2500
        THEN [pts |-> 5, note |-> "Net income strong (>= $2,500)."]
    ELSE IF a.net_monthly_income >= 2000
        THEN [pts |-> 10, note |-> "Net income good (>= $2,000)."]
    ELSE IF a.net_monthly_income >= 1500
        THEN [pts |-> 15, note |-> "Net income moderate (>= $1,500)."]
    ELSE [pts |-> -10, note |-> "Net income low (< $1,500)."]

\* Income strength
IncomeRule(a) ==
    IF a.net_monthly_income >= 2500
        THEN [pts |-> 15, note |-> "Net income strong (>= $2,500)."]
    ELSE IF a.net_monthly_income >= 2000
        THEN [pts |-> 10, note |-> "Net income good (>= $2,000)."]
    ELSE IF a.net_monthly_income >= 1500
        THEN [pts |-> 5, note |-> "Net income moderate (>= $1,500)."]
    ELSE [pts |-> -10, note |-> "Net income low (< $1,500)."]

\* PTI (payment-to-income)
PtiRule(a) ==
    LET pti == compute_pti(a.net_monthly_income, a.desired_payment)
    IN  IF PtiLeq(pti, 20)
            THEN [pts |-> 15, note |-> "PTI excellent (" \o FormatPct(pti) \o ")."]
        ELSE IF PtiLeq(pti, 25)
            THEN [pts |-> 10, note |-> "PTI good (" \o FormatPct(pti) \o ")."]
        ELSE IF PtiLeq(pti, 30)
            THEN [pts |-> 0, note |-> "PTI borderline (" \o FormatPct(pti) \o ")."]
        ELSE [pts |-> -15, note |-> "PTI high (" \o FormatPct(pti) \o ")."]

\* The job rule with strict comparisons.
JobRuleStrict(a) ==
    IF a.job_time_months > 24
        THEN [pts |-> 10, note |-> "Job time strong (>= 24 mo)."]
    ELSE IF a.job_time_months > 12
        THEN [pts |-> 5, note |-> "Job time ok (>= 12 mo)."]
    ELSE [pts |-> -10, note |-> "Job time short (< 12 mo)."]

\* Job time
JobRule(a) ==
    IF a.job_time_months >= 24
        THEN [pts |-> 10, note |-> "Job time strong (>= 24 mo)."]
    ELSE IF a.job_time_months >= 12
        THEN [pts |-> 5, note |-> "Job time ok (>= 12 mo)."]
    ELSE [pts |-> -10, note |-> "Job time short (< 12 mo)."]

\* Residence time
ResidenceRule(a) ==
    IF a.residence_time_months >= 24
        THEN [pts |-> 8, note |-> "Residence time strong (>= 24 mo)."]
    ELSE IF a.residence_time_months >= 12
        THEN [pts |-> 4, note |-> "Residence time ok (>= 12 mo)."]
    ELSE [pts |-> -6, note |-> "Residence time short (< 12 mo)."]

\* Down payment
DownRule(a) ==
    IF a.down_payment >= 1500
        THEN [pts |-> 10, note |-> "Down payment strong (>= $1,500)."]
    ELSE IF a.down_payment >= 999
        THEN [pts |-> 6, note |-> "Down payment ok (>= $999)."]
    ELSE IF a.down_payment > 0
        THEN [pts |-> 2, note |-> "Down payment low (< $999)."]
    ELSE [pts |-> -8, note |-> "No down payment."]

\* Red flags: each `if` on its own, in the order of the code.
RedFlagRules(a) ==
    (IF a.has_repo
        THEN <<[pts |-> -6, note |-> "Repo history flagged."]>> ELSE <<>>)
    \o (IF a.has_bankruptcy
        THEN <<[pts |-> -6, note |-> "Bankruptcy history flagged."]>> ELSE <<>>)
    \o (IF a.self_employed
        THEN <<[pts |-> -2, note |-> "Self-employed: verify income carefully."]>>
        ELSE <<>>)
    \o (IF a.first_time_buyer
        THEN <<[pts |-> -1, note |-> "First-time buyer."]>> ELSE <<>>)

\* The `missing` list of the stips penalty.
MissingStips(a) ==
    (IF ~a.dl_on_file THEN <<"DL">> ELSE <<>>)
    \o (IF ~a.poi_on_file THEN <<"POI">> ELSE <<>>)
    \o (IF ~a.por_on_file THEN <<"POR">> ELSE <<>>)
    \o (IF ~a.references_on_file THEN <<"Refs">> ELSE <<>>)

Min(x, y) == IF x <= y THEN x ELSE y
Max(x, y) == IF x >= y THEN x ELSE y

\* sep.join(strs)
RECURSIVE Join(_, _)
Join(strs, sep) ==
    IF Len(strs) = 0 THEN ""
    ELSE IF Len(strs) = 1 THEN strs[1]
    ELSE strs[1] \o sep \o Join(Tail(strs), sep)

\* Missing stips penalty
MissingRule(a) ==
    LET missing == MissingStips(a)
    IN  IF Len(missing) > 0
            THEN <<[pts |-> -Min(12, 3 * Len(missing)),
                    note |-> "Missing stips: " \o Join(missing, ", ") \o "."]>>
        ELSE <<>>

\* Every rule that fired, in evaluation order.
FiredRules(a) ==
    <<IncomeRule(a), PtiRule(a), JobRule(a), ResidenceRule(a), DownRule(a)>>
    \o RedFlagRules(a) \o MissingRule(a)

RECURSIVE SumPts(_)
SumPts(rules) ==
    IF Len(rules) = 0 THEN 0 ELSE rules[1].pts + SumPts(Tail(rules))

\* The clamp with its lower bound forgotten.
ClampAbove(score) == Min(100, score)

\* Clamp score
Clamp(score) == Max(0, Min(100, score))

\* The tiers with the Counter / Decline test on the wrong side of 999.
TierDecisionInclusive(score, a) ==
    IF score >= 80 THEN [tier |-> "A", decision |-> "Approve"]
    ELSE IF score >= 65 THEN [tier |-> "B", decision |-> "Approve"]
    ELSE IF score >= 50 THEN [tier |-> "C", decision |-> "Review"]
    ELSE [tier |-> "D",
          decision |-> IF a.down_payment <= 999 THEN "Counter" ELSE "Decline"]

\* Tier + decision
TierDecision(score, a) ==
    IF score >= 80 THEN [tier |-> "A", decision |-> "Approve"]
    ELSE IF score >= 65 THEN [tier |-> "B", decision |-> "Approve"]
    ELSE IF score >= 50 THEN [tier |-> "C", decision |-> "Review"]
    ELSE [tier |-> "D",
          decision |-> IF a.down_payment < 999 THEN "Counter" ELSE "Decline"]

\* score_application with `notes` a module-level list: every call appends
\* to what the calls before left in it.
score_applicationSharedNotes(a) ==
    LET rules == FiredRules(a)
        score == Clamp(Baseline + SumPts(rules))
        td    == TierDecision(score, a)
        own   == Join([i \in 1..Len(rules) |-> rules[i].note], " ")
    IN  [score    |-> score,
         tier     |-> td.tier,
         decision |-> td.decision,
         notes    |-> IF calls = {} THEN own
                      ELSE (CHOOSE c \in calls : TRUE).result.notes \o " " \o own]

score_application(a) ==
    LET rules == FiredRules(a)
        score == Clamp(Baseline + SumPts(rules))
        td    == TierDecision(score, a)
    IN  [score    |-> score,
         tier     |-> td.tier,
         decision |-> td.decision,
         notes    |-> Join([i \in 1..Len(rules) |-> rules[i].note], " ")]

(***************************************************************************)
(* The tables and the objects in them                                      *)
(***************************************************************************)
HOT_WARM_COLD == {"Hot", "Warm", "Cold"}

\* The tags offered by the multiselect (two of DEFAULT_TAGS).
DEFAULT_TAGS == {"Need Stips", "Repo"}

\* The column defaults of the scoring results, applied at INSERT to an
\* attribute that was never assigned.
DefaultResult == [score |-> 0, tier |-> "Unknown", decision |-> "Review", notes |-> ""]

InputFields ==
    {"net_monthly_income", "desired_payment", "job_time_months",
     "residence_time_months", "down_payment", "has_repo", "has_bankruptcy",
     "first_time_buyer", "self_employed", "dl_on_file", "poi_on_file",
     "por_on_file", "references_on_file"}

\* The input snapshot of a FinanceApplication: what score_application may read.
Snapshot(a) == [f \in InputFields |-> a[f]]

NoApp == [lead_id |-> -1]

Ids(tbl) == {r.id : r \in tbl}

\* SQLite's rowid for an INTEGER PRIMARY KEY: one more than the largest in use.
NextId(tbl) ==
    IF tbl = {} THEN 1 ELSE (CHOOSE i \in Ids(tbl) : \A j \in Ids(tbl) : j <= i) + 1

ChildrenOf(tbl, l) == {r \in tbl : r.lead_id = l}

\* str.strip() on the texts the model enters.
Strip(s) ==
    CASE s = "  "      -> ""
      [] s = " Hot "   -> "Hot"
      [] s = " Ann"    -> "Ann"
      [] s = "Call back " -> "Call back"
      [] OTHER         -> s

\* A cell of the uploaded table: NaN (a blank cell) or a text.
Cell(s) == [nan |-> FALSE, text |-> s]
NaN == [nan |-> TRUE, text |-> ""]

\* safe_str
safe_str(x) == IF x.nan THEN "" ELSE Strip(x.text)

\* row.get(col, default) on a row of a file with the given columns.
RowGet(file, row, col, default) ==
    IF col \in file.columns THEN row[col] ELSE Cell(default)

\* `x or y` on strings
OrElse(x, y) == IF x = "" THEN y ELSE x

Idle == "idle"
NoOp == [op |-> "none", ok |-> TRUE, lead |-> 0, sel |-> <<>>, times |-> 0, cols |-> {}]
Did(op, ok) == [op |-> op, ok |-> ok, lead |-> 0, sel |-> <<>>, times |-> 0, cols |-> {}]

(***************************************************************************)
(* Import Leads                                                            *)
(***************************************************************************)
\* The import without the check against HOT_WARM_COLD.
ImportedLeadUnchecked(file, row, id) ==
    [id         |-> id,
     first_name |-> safe_str(RowGet(file, row, "first_name", "")),
     last_name  |-> safe_str(RowGet(file, row, "last_name", "")),
     status     |-> OrElse(safe_str(RowGet(file, row, "status", "Warm")), "Warm")]

\* The Lead built from one row of the file.
ImportedLead(file, row, id) ==
    LET status == OrElse(safe_str(RowGet(file, row, "status", "Warm")), "Warm")
    IN  [id         |-> id,
         first_name |-> safe_str(RowGet(file, row, "first_name", "")),
         last_name  |-> safe_str(RowGet(file, row, "last_name", "")),
         status     |-> IF status \notin HOT_WARM_COLD THEN "Warm" ELSE status]

\* An import that keeps only the rows that carry a name.
RECURSIVE AddRowsNamed(_, _, _)
AddRowsNamed(tbl, file, i) ==
    IF i > Len(file.rows) THEN tbl
    ELSE LET lead == ImportedLead(file, file.rows[i], NextId(tbl))
         IN  AddRowsNamed(IF lead.first_name = "" /\ lead.last_name = ""
                             THEN tbl ELSE tbl \cup {lead},
                          file, i + 1)

\* db.add of every row's Lead, in file order, then one commit.
RECURSIVE AddRows(_, _, _)
AddRows(tbl, file, i) ==
    IF i > Len(file.rows) THEN tbl
    ELSE AddRows(tbl \cup {ImportedLead(file, file.rows[i], NextId(tbl))}, file, i + 1)

\* The status cell of a row as the file gives it.
RawStatus(file, row) ==
    IF "status" \notin file.columns THEN "<absent>"
    ELSE IF row.status.nan THEN "<NaN>" ELSE row.status.text

\* How a run of the page with a file uploaded ends: the leads are committed;
\* pd.read_csv / pd.read_excel raises on the upload; db.commit() raises (the
\* database is locked or cannot be written) and the transaction is rolled
\* back.  Both exceptions end in `except Exception` with st.error.
ImportOutcomes == {"ok", "read_error", "commit_error"}

ImportLeads(file, outcome) ==
    /\ pc = Idle
    /\ IF outcome = "ok"
          THEN /\ leads' = AddRows(leads, file, 1)
               /\ last' = [op |-> "import", ok |-> TRUE, lead |-> NextId(leads),
                           sel |-> [i \in 1..Len(file.rows) |->
                                       RawStatus(file, file.rows[i])],
                           times |-> Len(file.rows), cols |-> file.columns]
          ELSE /\ UNCHANGED leads
               /\ last' = Did("import", FALSE)
    /\ UNCHANGED <<tags, notes, apps, pc, app, ret, calls, sess, written>>

(***************************************************************************)
(* Create Lead                                                             *)
(***************************************************************************)
\* The form as submitted: `not first_name and not last_name` tests the texts
\* as entered, and the Lead is built from the stripped texts.
CreateLead(first_name, last_name, status) ==
    /\ pc = Idle
    /\ IF first_name = "" /\ last_name = ""
          THEN /\ last' = [Did("create_lead", FALSE) EXCEPT
                               !.sel = <<first_name, last_name>>]
               /\ UNCHANGED leads
          ELSE /\ leads' = leads \cup
                    {[id         |-> NextId(leads),
                      first_name |-> Strip(first_name),
                      last_name  |-> Strip(last_name),
                      status     |-> status]}
               /\ last' = [Did("create_lead", TRUE) EXCEPT
                               !.lead = NextId(leads),
                               !.sel = <<first_name, last_name>>]
    /\ UNCHANGED <<tags, notes, apps, pc, app, ret, calls, sess, written>>

(***************************************************************************)
(* Lead Detail                                                             *)
(***************************************************************************)
\* The update_lead form: the widgets' values are assigned as entered.
UpdateLead(l, first_name, last_name, status) ==
    /\ pc = Idle
    /\ l \in leads
    /\ leads' = (leads \ {l}) \cup
            {[l EXCEPT !.first_name = first_name, !.last_name = last_name,
                       !.status = status]}
    /\ last' = Did("update_lead", TRUE)
    /\ UNCHANGED <<tags, notes, apps, pc, app, ret, calls, sess, written>>

\* The rows the flush of a tag replace leaves: session `loaded` holds the Tag
\* rows of lead.tags as the run read them.  The unit of work INSERTs the
\* appended Tags (in list order) and DELETEs every orphan by primary key, in
\* one transaction.
RECURSIVE InsertTags(_, _, _, _)
InsertTags(tbl, lid, new_tags, i) ==
    IF i > Len(new_tags) THEN tbl
    ELSE InsertTags(tbl \cup {[id |-> NextId(tbl), lead_id |-> lid, name |-> new_tags[i]]},
                    lid, new_tags, i + 1)

\* The replace without lead.tags.clear(): an incremental append.
ReplaceTagsNoClear(tbl, loaded, lid, new_tags) ==
    InsertTags(tbl, lid, new_tags, 1)

ReplaceTags(tbl, loaded, lid, new_tags) ==
    {r \in InsertTags(tbl, lid, new_tags, 1) : r.id \notin Ids(loaded)}

\* The sequences without repetition over a set: what st.multiselect returns.
RECURSIVE Selections(_)
Selections(S) ==
    {<<>>} \cup UNION {{<<x>> \o t : t \in Selections(S \ {x})} : x \in S}

TagOptions(lid) == DEFAULT_TAGS \cup {t.name : t \in ChildrenOf(tags, lid)}

\* One run of the page with "Update Tags" pressed: lead.tags is read and
\* replaced in the same run.
UpdateTags(l, new_tags) ==
    /\ pc = Idle
    /\ l \in leads
    /\ new_tags \in Selections(TagOptions(l.id))
    /\ tags' = ReplaceTags(tags, ChildrenOf(tags, l.id), l.id, new_tags)
    /\ last' = [op |-> "update_tags", ok |-> TRUE, lead |-> l.id, sel |-> new_tags,
                times |-> IF /\ last.op = "update_tags" /\ last.lead = l.id
                             /\ last.sel = new_tags
                          THEN 2 ELSE 1,
                cols |-> {}]
    /\ UNCHANGED <<leads, notes, apps, pc, app, ret, calls, sess, written>>

\* The add_note form
AddNote(l, note_body, created_by) ==
    /\ pc = Idle
    /\ l \in leads
    /\ IF Strip(note_body) = ""
          THEN /\ last' = [Did("add_note", FALSE) EXCEPT !.sel = <<note_body>>]
               /\ UNCHANGED notes
          ELSE /\ notes' = notes \cup
                    {[id |-> NextId(notes), lead_id |-> l.id,
                      body |-> Strip(note_body),
                      created_by |-> OrElse(Strip(created_by), "None")]}
               /\ last' = [Did("add_note", TRUE) EXCEPT !.sel = <<note_body>>]
    /\ UNCHANGED <<leads, tags, apps, pc, app, ret, calls, sess, written>>

\* The create_app form, submitted: the FinanceApplication object is built.
SubmitApp(l, snap, run_score) ==
    /\ pc = Idle
    /\ l \in leads
    /\ app' = [snap EXCEPT !.lead_id = l.id]
    /\ pc' = IF run_score THEN "score" ELSE "save"
    /\ UNCHANGED <<leads, tags, notes, apps, ret, calls, sess, written, last>>

\* sc, tier, decision, sc_notes = score_application(app)
ScoreCall ==
    /\ pc = "score"
    /\ ret' = score_application(app)
    /\ calls' = calls \cup
            {[snapshot |-> Snapshot(app), result |-> score_application(app),
              again |-> \E c \in calls : c.snapshot = Snapshot(app)]}
    /\ pc' = "save"
    /\ UNCHANGED <<leads, tags, notes, apps, app, sess, written, last>>

\* The result columns left to their defaults whether or not the score ran.
StoredResultUnassigned(r) == DefaultResult

\* The result columns of the row inserted: the values assigned from the
\* tuple score_application returned, or the column defaults when
\* run_score was off and nothing was assigned.
StoredResult(r) == IF r # NoResult THEN r ELSE DefaultResult

\* The results are assigned when the score ran; db.add(app); db.commit().
SaveApp ==
    /\ pc = "save"
    /\ apps' = apps \cup
            {[id |-> NextId(apps)] @@ [app EXCEPT !.result = StoredResult(ret)]}
    /\ last' = [Did("create_app", TRUE) EXCEPT
                    !.lead = NextId(apps),
                    !.sel = IF ret # NoResult THEN <<"scored">> ELSE <<"unscored">>]
    /\ pc' = Idle
    /\ app' = NoApp
    /\ ret' = NoResult
    /\ UNCHANGED <<leads, tags, notes, calls, sess, written>>

\* The relationships declared without a cascade: the children stay.
CascadeNone(tbl, lid) == tbl

\* session.delete(lead) and commit: the relationships tags, notes and apps
\* are declared cascade="all, delete-orphan", so the children go with it.
Cascade(tbl, lid) == tbl \ ChildrenOf(tbl, lid)

DeleteLead(l) ==
    /\ pc = Idle
    /\ l \in leads
    /\ leads' = leads \ {l}
    /\ tags' = Cascade(tags, l.id)
    /\ notes' = Cascade(notes, l.id)
    /\ apps' = Cascade(apps, l.id)
    /\ last' = [Did("delete_lead", TRUE) EXCEPT
                    !.lead = l.id,
                    !.times = Cardinality(ChildrenOf(tags, l.id))
                              + Cardinality(ChildrenOf(notes, l.id))
                              + Cardinality(ChildrenOf(apps, l.id))]
    /\ UNCHANGED <<pc, app, ret, calls, sess, written>>

(***************************************************************************)
(* Two browser sessions on Lead Detail.  Streamlit runs each session's     *)
(* script in a thread of its own, and each run opens its own ORM session   *)
(* (db = get_db()).  A run reads lead.tags, and with "Update Tags" pressed *)
(* replaces them and commits; SQLite makes the commit one transaction.     *)
(***************************************************************************)
Sessions == {"A", "B"}

NoRun == [pc |-> "idle", lead |-> 0, loaded |-> {}]
NotWritten == [done |-> FALSE, lead |-> 0, sel |-> <<>>]

\* The run reaches the multiselect: lead and lead.tags are loaded.
RunLoadTags(s, l) ==
    /\ sess[s].pc = "idle"
    /\ l \in leads
    /\ sess' = [sess EXCEPT ![s] = [pc |-> "loaded", lead |-> l.id,
                                    loaded |-> ChildrenOf(tags, l.id)]]
    /\ UNCHANGED <<leads, tags, notes, apps, pc, app, ret, calls, written, last>>

\* "Update Tags" was pressed: clear, append, commit.
RunUpdateTags(s, new_tags) ==
    /\ sess[s].pc = "loaded"
    /\ new_tags \in Selections(DEFAULT_TAGS \cup {t.name : t \in sess[s].loaded})
    /\ tags' = ReplaceTags(tags, sess[s].loaded, sess[s].lead, new_tags)
    /\ written' = [written EXCEPT ![s] =
                        [done |-> TRUE, lead |-> sess[s].lead, sel |-> new_tags]]
    /\ sess' = [sess EXCEPT ![s] = NoRun]
    /\ UNCHANGED <<leads, notes, apps, pc, app, ret, calls, last>>

\* The button was not pressed: the run ends and wrote nothing.
RunEnd(s) ==
    /\ sess[s].pc = "loaded"
    /\ sess' = [sess EXCEPT ![s] = NoRun]
    /\ UNCHANGED <<leads, tags, notes, apps, pc, app, ret, calls, written, last>>

(***************************************************************************)
(* Bounds and the inputs drawn                                             *)
(***************************************************************************)
MaxLeads == 2
MaxRows == 2
MaxTagId == 4
MaxNotes == 2
MaxApps == 2

Range(f) == {f[i] : i \in DOMAIN f}

\* The application of the form's defaults, and the two of the examples.
FormDefaults ==
    [lead_id |-> 0, result |-> NoResult,
     net_monthly_income |-> 2000, desired_payment |-> 450, job_time_months |-> 12,
     residence_time_months |-> 12, down_payment |-> 999,
     has_repo |-> FALSE, has_bankruptcy |-> FALSE, first_time_buyer |-> FALSE,
     self_employed |-> FALSE, dl_on_file |-> FALSE, poi_on_file |-> FALSE,
     por_on_file |-> FALSE, references_on_file |-> FALSE]

Scenario1 ==
    [FormDefaults EXCEPT !.dl_on_file = TRUE, !.poi_on_file = TRUE,
                         !.por_on_file = TRUE, !.references_on_file = TRUE]

Scenario2 ==
    [FormDefaults EXCEPT !.net_monthly_income = 1200, !.desired_payment = 500,
                         !.job_time_months = 6, !.residence_time_months = 6,
                         !.down_payment = 0, !.has_repo = TRUE,
                         !.has_bankruptcy = TRUE]

\* Applications with the given numeric values, the red flags all `red` and
\* the stips all `stips`.
Profile(nets, pays, jobs, ress, downs, red, stips) ==
    [lead_id : {0}, result : {NoResult},
     net_monthly_income : nets, desired_payment : pays, job_time_months : jobs,
     residence_time_months : ress, down_payment : downs,
     has_repo : red, has_bankruptcy : red, first_time_buyer : red,
     self_employed : red, dl_on_file : stips, poi_on_file : stips,
     por_on_file : stips, references_on_file : stips]

\* Every boundary of every numeric rule, with the red flags all off or all
\* on and the stips all on file or all missing.
NumericSweep ==
    UNION {Profile({-100, 0, 1200, 1499, 1500, 1999, 2000, 2499, 2500},
                   {-50, 0, 375, 400, 401, 450, 500, 501, 600, 601},
                   {6, 11, 12, 23, 24}, {6, 11, 12, 23, 24},
                   {-1, 0, 1, 998, 999, 1499, 1500}, {p[1]}, {p[2]}) :
           p \in BOOLEAN \X BOOLEAN}

\* Every combination of the eight flags, on a grid of the numeric bands.
FlagSweep ==
    Profile({0, 1200, 2000, 2500}, {450, 500}, {6, 12, 24}, {6, 12, 24},
            {0, 999, 1500}, BOOLEAN, BOOLEAN)

Applications == NumericSweep \cup FlagSweep

AppSamples == {FormDefaults, Scenario1, Scenario2}

\* The files with one of the column sets and up to n rows; a column the
\* file lacks has no cells (kept blank in the row).
FileSet(colsets, firsts, lasts, statuses, n) ==
    UNION {{[columns |-> c, rows |-> r] :
              r \in UNION {[1..k ->
                              [first_name : IF "first_name" \in c THEN firsts ELSE {NaN},
                               last_name  : IF "last_name" \in c THEN lasts ELSE {NaN},
                               status     : IF "status" \in c THEN statuses ELSE {NaN}]] :
                           k \in 0..n}} :
           c \in colsets}

(***************************************************************************)
(* The scoring function on its own: one application, one call.             *)
(***************************************************************************)
Fresh ==
    /\ leads = {} /\ tags = {} /\ notes = {} /\ apps = {}
    /\ calls = {}
    /\ ret = NoResult
    /\ sess = [s \in Sessions |-> NoRun]
    /\ written = [s \in Sessions |-> NotWritten]
    /\ last = NoOp

ScoreInit ==
    /\ Fresh
    /\ app \in Applications
    /\ pc = "score"

ScoreNext == ScoreCall

SpecScore == ScoreInit /\ [][ScoreNext]_vars

(***************************************************************************)
(* The pages that write Leads.                                             *)
(***************************************************************************)
Init ==
    /\ Fresh
    /\ app = NoApp
    /\ pc = Idle

LeadFiles ==
    FileSet({{"first_name", "last_name", "status"}, {"first_name", "last_name"},
             {"status"}},
            {Cell(" Ann")}, {Cell("Lee")},
            {Cell(" Hot "), Cell("Unknown"), Cell("  "), NaN},
            MaxRows)

LeadsNext ==
    \/ \E file \in LeadFiles, outcome \in ImportOutcomes :
          /\ NextId(leads) + Len(file.rows) - 1 <= MaxLeads
          /\ ImportLeads(file, outcome)
    \/ \E f \in {"", "  ", " Ann"}, n \in {"", "Lee"}, st \in HOT_WARM_COLD :
          /\ NextId(leads) <= MaxLeads
          /\ CreateLead(f, n, st)
    \/ \E l \in leads, st \in HOT_WARM_COLD :
          \E f \in {"", l.first_name}, n \in {"  ", l.last_name} :
             UpdateLead(l, f, n, st)

SpecLeads == Init /\ [][LeadsNext]_vars

(***************************************************************************)
(* Every page, one run at a time.  A profile P names the inputs drawn and  *)
(* the largest row id of each table; each specification widens the part    *)
(* its properties are about.                                               *)
(***************************************************************************)
OneRowFiles ==
    FileSet({{"first_name", "status"}}, {Cell(" Ann")}, {NaN}, {Cell(" Hot ")}, 1)

Handlers(P) ==
    \/ \E file \in OneRowFiles, outcome \in ImportOutcomes :
          /\ NextId(leads) + Len(file.rows) - 1 <= P.maxLeads
          /\ ImportLeads(file, outcome)
    \/ \E f \in P.firstNames :
          /\ NextId(leads) <= P.maxLeads
          /\ CreateLead(f, "", "Hot")
    \/ \E l \in leads :
          UpdateLead(l, l.first_name, "Lee", "Cold")
    \/ \E l \in leads, new_tags \in Selections(P.tagNames) :
          /\ NextId(tags) + Len(new_tags) - 1 <= P.maxTagId
          /\ UpdateTags(l, new_tags)
    \/ \E l \in leads, body \in {"  ", "Call back "} :
          /\ NextId(notes) <= P.maxNotes
          /\ AddNote(l, body, "")
    \/ \E l \in leads, snap \in P.samples, run_score \in BOOLEAN :
          /\ NextId(apps) <= P.maxApps
          /\ SubmitApp(l, snap, run_score)
    \/ ScoreCall
    \/ SaveApp

\* Finance applications in the lead: every sample, scored or not.
AppsProfile ==
    [maxLeads |-> 1, firstNames |-> {"", "  ", " Ann"}, tagNames |-> {"Repo"},
     maxTagId |-> 1, maxNotes |-> 1, samples |-> AppSamples, maxApps |-> MaxApps]

Next == Handlers(AppsProfile)

Spec == Init /\ [][Next]_vars

\* Tags in the lead: every selection of the tags offered.
TagsProfile ==
    [maxLeads |-> 1, firstNames |-> {"", " Ann"}, tagNames |-> DEFAULT_TAGS,
     maxTagId |-> MaxTagId, maxNotes |-> 1,
     samples |-> {FormDefaults}, maxApps |-> 1]

TagsNext == Handlers(TagsProfile)

SpecTags == Init /\ [][TagsNext]_vars

\* Two leads with children (up to MaxNotes tags and MaxNotes notes between
\* them), and the deletion of a Lead the mapping provides for.
CascadeProfile ==
    [maxLeads |-> 2, firstNames |-> {"", " Ann"}, tagNames |-> {"Repo"},
     maxTagId |-> MaxNotes,
     maxNotes |-> MaxNotes, samples |-> {FormDefaults}, maxApps |-> 1]

CascadeNext ==
    \/ Handlers(CascadeProfile)
    \/ \E l \in leads : DeleteLead(l)

SpecCascade == Init /\ [][CascadeNext]_vars

(***************************************************************************)
(* Two sessions replacing the tags of one lead.                            *)
(***************************************************************************)
ConcNext ==
    \/ /\ NextId(leads) <= 1
       /\ CreateLead("Ann", "", "Warm")
    \/ \E s \in Sessions, l \in leads : RunLoadTags(s, l)
    \/ \E s \in Sessions, new_tags \in Selections(DEFAULT_TAGS) :
          /\ NextId(tags) + Len(new_tags) - 1 <= MaxTagId
          /\ RunUpdateTags(s, new_tags)
    \/ \E s \in Sessions : RunEnd(s)

SpecConc == Init /\ [][ConcNext]_vars

(***************************************************************************)
(* Properties of the scoring function (SpecScore)                          *)
(***************************************************************************)
Scored == ret # NoResult

\* C1: for every application, zero and negative numeric fields and every
\* combination of the eight flags included, the score returned is an
\* integer between 0 and 100.
C1_ScoreInRange == Scored => ret.score \in 0..100

\* An application without income whose rules sum below zero was scored.
C1_Witness ==
    /\ Scored
    /\ app.net_monthly_income < 0
    /\ Baseline + SumPts(FiredRules(app)) < 0
    /\ ret.score = 0

\* The contributions as the claim words them, on the fields of the application.
IncomePts(a) ==
    IF a.net_monthly_income >= 2500 THEN 15
    ELSE IF a.net_monthly_income >= 2000 THEN 10
    ELSE IF a.net_monthly_income >= 1500 THEN 5 ELSE -10

PtiPts(a) ==
    IF a.net_monthly_income <= 0 THEN -15
    ELSE IF 100 * a.desired_payment <= 20 * a.net_monthly_income THEN 15
    ELSE IF 100 * a.desired_payment <= 25 * a.net_monthly_income THEN 10
    ELSE IF 100 * a.desired_payment <= 30 * a.net_monthly_income THEN 0
    ELSE -15

JobPts(a) ==
    IF a.job_time_months >= 24 THEN 10
    ELSE IF a.job_time_months >= 12 THEN 5 ELSE -10

ResidencePts(a) ==
    IF a.residence_time_months >= 24 THEN 8
    ELSE IF a.residence_time_months >= 12 THEN 4 ELSE -6

DownPts(a) ==
    IF a.down_payment >= 1500 THEN 10
    ELSE IF a.down_payment >= 999 THEN 6
    ELSE IF a.down_payment > 0 THEN 2 ELSE -8

FlagPts(a) ==
    (IF a.has_repo THEN 6 ELSE 0) + (IF a.has_bankruptcy THEN 6 ELSE 0)
    + (IF a.self_employed THEN 2 ELSE 0) + (IF a.first_time_buyer THEN 1 ELSE 0)

MissingPts(a) ==
    Min(12, 3 * Cardinality({f \in {"dl_on_file", "poi_on_file", "por_on_file",
                                    "references_on_file"} : ~a[f]}))

ExpectedScore(a) ==
    Max(0, Min(100, 50 + IncomePts(a) + PtiPts(a) + JobPts(a) + ResidencePts(a)
                       + DownPts(a) - FlagPts(a) - MissingPts(a)))

\* C2: the score returned equals max(0, min(100, 50 + income + pti + job +
\* residence + down + flags - missing)) with the weights of the rules; the
\* first example scores 85 and the second 0.
C2_ScoreFormula ==
    Scored =>
        /\ ret.score = ExpectedScore(app)
        /\ Snapshot(app) = Snapshot(Scenario1) => ret.score = 85
        /\ Snapshot(app) = Snapshot(Scenario2) => ret.score = 0

\* The second example was scored.
C2_Witness == Scored /\ Snapshot(app) = Snapshot(Scenario2) /\ ret.score = 0

\* C3: tier and decision are a total function of the clamped score and the
\* down payment: >= 80 (A, Approve); 65..79 (B, Approve); 50..64 (C, Review);
\* below 50 tier D, Counter when the down payment is under 999 and Decline
\* otherwise; every score of 0..100 has exactly one tier, never Unknown.
C3_TierDecision ==
    Scored =>
        /\ ret.score >= 80 => ret.tier = "A" /\ ret.decision = "Approve"
        /\ ret.score \in 65..79 => ret.tier = "B" /\ ret.decision = "Approve"
        /\ ret.score \in 50..64 => ret.tier = "C" /\ ret.decision = "Review"
        /\ ret.score < 50 =>
              /\ ret.tier = "D"
              /\ ret.decision = IF app.down_payment < 999 THEN "Counter" ELSE "Decline"
        /\ ret.tier # "Unknown"
        /\ \A sc \in 0..100 :
              TierDecision(sc, app).tier =
                  IF sc >= 80 THEN "A" ELSE IF sc >= 65 THEN "B"
                  ELSE IF sc >= 50 THEN "C" ELSE "D"

\* A tier D application with exactly 999 down was declined.
C3_Witness ==
    Scored /\ ret.score < 50 /\ app.down_payment = 999 /\ ret.decision = "Decline"

\* C4: compute_pti is 1.0 for every net income <= 0 and desired_payment /
\* net_income otherwise (compute_pti(1000, 250) = 0.25); an application
\* without income gets the PTI contribution -15, one with income +15 up to
\* 20% of it, +10 up to 25%, 0 up to 30% and -15 above, each bound inclusive.
C4_Pti ==
    LET net == app.net_monthly_income
        pay == app.desired_payment
        pti == compute_pti(net, pay)
        quarter == compute_pti(1000, 250)
    IN  /\ net <= 0 => pti[1] = pti[2] /\ pti[2] # 0
        /\ net > 0 => pti[1] * net = pay * pti[2] /\ pti[2] # 0
        /\ 100 * quarter[1] = 25 * quarter[2]
        /\ Scored => PtiRule(app).pts = PtiPts(app)
        /\ Scored => ret.score = Clamp(Baseline + SumPts(FiredRules(app))
                                        - PtiRule(app).pts + PtiPts(app))

\* An application with no income and no payment was scored as PTI high.
C4_Witness ==
    /\ Scored
    /\ app.net_monthly_income = 0
    /\ app.desired_payment = 0
    /\ PtiRule(app).pts = -15

NetValues == {-100, 0, 1200, 1499, 1500, 1999, 2000, 2499, 2500, 3000}

\* C6: all else fixed, for net incomes x <= y the income rule contributes to
\* y no less than to x.
C6_IncomeMonotone ==
    \A y \in NetValues :
        app.net_monthly_income <= y =>
            IncomeRule(app).pts <= IncomeRule([app EXCEPT !.net_monthly_income = y]).pts

\* An application just under 1500 was scored (3000 lies above 2500).
C6_Witness == Scored /\ app.net_monthly_income = 1499 /\ IncomeRule(app).pts = -10

(***************************************************************************)
(* Properties of the pages                                                 *)
(***************************************************************************)
\* Two calls on identical snapshots returned the same tuple.
Deterministic ==
    \A c1, c2 \in calls : c1.snapshot = c2.snapshot => c1.result = c2.result

CoercedStatus(raw) == IF raw \in {"Hot", "Warm", "Cold"} THEN raw ELSE "Warm"

StatusValid == \A l \in leads : l.status \in {"Hot", "Warm", "Cold"}

\* The Lead the last import stored for its row i.
ImportedRow(i) == CHOOSE l \in leads : l.id = last.lead + i - 1

\* C7 as worded: every stored Lead has status Hot, Warm or Cold, and an
\* imported row whose status is blank, absent or any value outside the set
\* is stored Warm.
C7_AsWorded ==
    /\ StatusValid
    /\ last.op = "import" =>
          \A i \in 1..last.times :
              last.sel[i] \notin {"Hot", "Warm", "Cold"} => ImportedRow(i).status = "Warm"

\* C7, amended: every stored Lead has status Hot, Warm or Cold after any
\* sequence of import, create-lead and update-lead; an imported row is
\* stored Warm when its status is blank, absent, or a value that with the
\* surrounding whitespace stripped is outside the set, and with the stripped
\* value otherwise.
C7_StatusCoerced ==
    /\ StatusValid
    /\ last.op = "import" =>
          \A i \in 1..last.times :
              ImportedRow(i).status =
                  IF last.sel[i] \in {"<absent>", "<NaN>"} THEN "Warm"
                  ELSE CoercedStatus(Strip(last.sel[i]))

\* A file of two rows was imported, one with status "Unknown" and one blank.
C7_Witness ==
    /\ last.op = "import" /\ last.times = 2
    /\ last.sel[1] = "Unknown" /\ last.sel[2] = "<NaN>"
    /\ ImportedRow(1).status = "Warm" /\ ImportedRow(2).status = "Warm"

RefIntegrity ==
    /\ \A t \in tags : t.lead_id \in Ids(leads)
    /\ \A n \in notes : n.lead_id \in Ids(leads)
    /\ \A a \in apps : a.lead_id \in Ids(leads)

\* C8: every stored Tag, Note and FinanceApplication references a Lead that
\* exists; deleting a Lead removes all its Tags, Notes and
\* FinanceApplications in the same step and leaves the children of every
\* other Lead unchanged.
C8_Cascade ==
    /\ []RefIntegrity
    /\ [][\A l \in leads :
            (last'.op = "delete_lead" /\ leads' = leads \ {l}) =>
                /\ ChildrenOf(tags', l.id) = {}
                /\ ChildrenOf(notes', l.id) = {}
                /\ ChildrenOf(apps', l.id) = {}
                /\ \A o \in leads \ {l} :
                      /\ ChildrenOf(tags', o.id) = ChildrenOf(tags, o.id)
                      /\ ChildrenOf(notes', o.id) = ChildrenOf(notes, o.id)
                      /\ ChildrenOf(apps', o.id) = ChildrenOf(apps, o.id)]_vars

\* A lead with two notes, a tag and an application was deleted, and the other
\* lead keeps its tag.
C8_Witness ==
    /\ last.op = "delete_lead" /\ last.times = 4
    /\ leads # {} /\ tags # {}
    /\ RefIntegrity

\* The names of the tags of a lead are exactly those of the list, one Tag each.
ExactlyTags(lid, sel) ==
    /\ {t.name : t \in ChildrenOf(tags, lid)} = Range(sel)
    /\ Cardinality(ChildrenOf(tags, lid)) = Len(sel)

\* C9: two concurrent tag replaces on one lead do not interleave
\* destructively: once both have committed, the lead's tags are exactly the
\* set one of the two wrote, never a mixture or union.
C9_LastWriterWins ==
    (\A s \in Sessions : written[s].done /\ sess[s].pc = "idle") =>
        \E s \in Sessions : ExactlyTags(written[s].lead, written[s].sel)

\* C10: replacing the tags of a lead with the same set twice in a row leaves
\* what replacing once leaves: exactly one Tag per name of the set, no
\* duplicate, no tag outside it.
C10_ReplaceIdempotent ==
    last.op = "update_tags" => ExactlyTags(last.lead, last.sel)

\* A lead's tags were replaced with the same two names twice in a row.
C10_Witness ==
    /\ last.op = "update_tags" /\ last.times = 2 /\ Len(last.sel) = 2
    /\ ExactlyTags(last.lead, last.sel)

(***************************************************************************)
(* Required-field checks of the forms (Spec)                               *)
(***************************************************************************)
\* The request `last` records was turned down with st.error.
Rejected == last.op \in {"create_lead", "add_note"} /\ ~last.ok

\* The Lead the create_lead form has just stored.
CreatedLead == CHOOSE l \in leads : l.id = last.lead

BothNamesEmpty(l) == l.first_name = "" /\ l.last_name = ""

\* The requests the checks are about are turned down.
EmptyRequestsRejected ==
    /\ last.op = "create_lead" /\ last.sel = <<"", "">> => ~last.ok
    /\ last.op = "add_note" /\ Strip(last.sel[1]) = "" => ~last.ok

\* A request turned down leaves the four tables as they were.
RejectedWritesNothing ==
    [][(last'.op \in {"create_lead", "add_note"} /\ ~last'.ok) =>
          tables' = tables]_vars

NoEmptyNote == \A n \in notes : n.body # ""

NoEmptyCreatedLead ==
    last.op = "create_lead" /\ last.ok => ~BothNamesEmpty(CreatedLead)

\* C11: a create-lead request with neither name and an add-note request
\* with an empty or whitespace-only body are rejected and leave Leads, Tags,
\* Notes and FinanceApplications unchanged, so no Lead stored through
\* create-lead has both names empty and no stored Note has an empty body.
C11_RequiredFields ==
    /\ [](EmptyRequestsRejected /\ NoEmptyNote /\ NoEmptyCreatedLead)
    /\ RejectedWritesNothing

\* The part of C11 the forms keep: the empty requests are turned down and
\* write nothing, and no Note is stored with an empty body.
C11_ChecksAsCoded ==
    /\ [](EmptyRequestsRejected /\ NoEmptyNote)
    /\ RejectedWritesNothing

\* Both kinds of request were turned down with rows in the tables.
C11_RejectedSeen ==
    /\ Rejected
    /\ last.op = "add_note" /\ last.sel = <<"  ">>
    /\ leads # {}

\* A create-lead request of blanks was accepted and stored without a name.
C11_BlankLeadStored ==
    /\ last.op = "create_lead" /\ last.ok
    /\ last.sel = <<"  ", "">>
    /\ BothNamesEmpty(CreatedLead)

(***************************************************************************)
(* The result fields of stored applications (Spec)                         *)
(***************************************************************************)
\* The application the create_app form has just stored.
SavedApp == CHOOSE a \in apps : a.id = last.lead

ResultOfOwnInputs(a) == a.result = score_application(a)

\* Every stored result is the score of the row's own inputs or the defaults.
ResultsFromScoring ==
    \A a \in apps : ResultOfOwnInputs(a) \/ a.result = DefaultResult

\* The row just saved holds the score when the score ran, the defaults
\* when it did not.
SavedAsScored ==
    last.op = "create_app" =>
        SavedApp.result = IF last.sel = <<"scored">>
                             THEN score_application(SavedApp) ELSE DefaultResult

\* A stored application is in the table unchanged after every step.
StoredAppsKept == [][\A a \in apps : a \in apps']_vars

\* C12: every stored application's score, tier, decision and explanation
\* are score_application of its own stored inputs, or the defaults (0,
\* Unknown, Review, empty) when it was saved without scoring, and no later
\* operation (lead update, tag replace, note append, import) changes them.
C12_ResultFields ==
    /\ [](ResultsFromScoring /\ SavedAsScored)
    /\ StoredAppsKept

\* A scored and an unscored application are stored and the lead's tags were
\* replaced afterwards.
C12_Witness ==
    /\ \E a, b \in apps :
          /\ a.result = DefaultResult
          /\ ResultOfOwnInputs(b) /\ b.result.score = 85
    /\ last.op = "update_tags"

(***************************************************************************)
(* The import as a batch (SpecLeads)                                       *)
(***************************************************************************)
\* The Leads a step added.
NewLeads == leads' \ leads

\* The step is a run of the import; `last` holds the file's columns, one
\* status cell per row, the count reported and the id of the first new row.
ImportStep == last'.op = "import" /\ last' # last

Rows == Len(last'.sel)

\* A successful import stored one new Lead per row, with the next ids in
\* file order, kept the Leads stored before and reported the number of rows.
OneLeadPerRow ==
    /\ leads \subseteq leads'
    /\ Cardinality(NewLeads) = Rows
    /\ Ids(NewLeads) = {NextId(leads) + i - 1 : i \in 1..Rows}
    /\ last'.times = Rows
    /\ UNCHANGED <<tags, notes, apps>>

\* The name columns the file lacks are stored as the empty string.
AbsentNamesEmpty ==
    \A l \in NewLeads :
        /\ "first_name" \notin last'.cols => l.first_name = ""
        /\ "last_name" \notin last'.cols => l.last_name = ""

\* An import that failed stored nothing and changed nothing.
FailedWritesNothing == tables' = tables

\* C13 as worded: every recognized column the file lacks, status included,
\* is stored as the empty string.
C13_AsWorded ==
    [][ImportStep =>
          IF last'.ok
             THEN /\ OneLeadPerRow
                  /\ AbsentNamesEmpty
                  /\ "status" \notin last'.cols => \A l \in NewLeads : l.status = ""
             ELSE FailedWritesNothing]_vars

\* C13, amended: an import of a file with n rows is one batch: on success
\* exactly n new Leads are stored, one per row, and the count reported is n;
\* a name column the file lacks is stored as the empty string and a status
\* column the file lacks as Warm; an import that fails before its commit
\* stores no Lead of the file and leaves every stored record unchanged.
C13_ImportBatch ==
    [][ImportStep =>
          IF last'.ok
             THEN /\ OneLeadPerRow
                  /\ AbsentNamesEmpty
                  /\ "status" \notin last'.cols => \A l \in NewLeads : l.status = "Warm"
             ELSE FailedWritesNothing]_vars

\* A file of one row with only a status column was imported next to a Lead
\* stored before: the count reported is 1 and the names are empty.
C13_Witness ==
    /\ last.op = "import" /\ last.ok
    /\ last.times = 1 /\ last.cols = {"status"}
    /\ Cardinality(leads) = 2
    /\ ImportedRow(1).first_name = "" /\ ImportedRow(1).last_name = ""

\* A file without a status column was imported and its row stored Warm.
C13_AbsentStatusSeen ==
    /\ last.op = "import" /\ last.ok
    /\ last.times = 1 /\ last.sel = <<"<absent>">>
    /\ ImportedRow(1).status = "Warm"

\* An import failed with a Lead stored before.
C13_FailureSeen == last.op = "import" /\ ~last.ok /\ leads # {}

====
